---- MODULE Spec2Model ----
(***************************************************************************)
(* A model of the KNPS reservation monitor: the change-detection core of   *)
(* src/github_monitor.py (GitHubActionsMonitor) and the availability       *)
(* report of src/monitor_all.py (ComprehensiveParkMonitor).                *)
(*                                                                         *)
(* Python dicts keep insertion order, and the code's output order follows  *)
(* it, so a dict is modelled as a sequence of [k |-> key, v |-> value]     *)
(* entries with distinct keys, in insertion order.                         *)
(*                                                                         *)
(* A date string f"{year}-{month:02d}-{day:02d}" is modelled as the tuple  *)
(* <<year, month, day>>: the zero-padded fixed-width format is injective   *)
(* and its string order is the tuple's lexicographic order.  The flat key  *)
(* f"{park_name}-{date}" is modelled as <<park_name, date>>.               *)
(***************************************************************************)
EXTENDS Integers, Sequences, FiniteSets, TLC

VARIABLES
    pc,               \* position of the modelled driver
    previous_state,   \* compare_states' first argument (loaded snapshot)
    current_results,  \* compare_states' second argument (this run's results)
    changes,          \* compare_states' return value
    raw,              \* the raw calendar content handed to a parser
    month_arg,        \* the parser's month argument
    parser,           \* the parsing strategy that produced available_dates
    available_dates,  \* the parser's return value
    state_file,       \* knps_state.json as the next run finds it
    park_i,           \* check_all_parks: index of the park checked next
    sent,             \* messages handed to send_telegram_message in this run
    success,          \* run_single_check's return value
    previous_type,    \* Python type of the value load_previous_state returned
    repo,             \* the git repository save_current_state commits to
    run               \* the number of the run under way

diffVars == <<previous_state, current_results, changes>>
parseVars == <<raw, month_arg, parser, available_dates>>
runVars == <<state_file, park_i, sent, success, previous_type, repo, run>>
vars == <<pc, diffVars, parseVars, runVars>>

----------------------------------------------------------------------------
(* Bounds of the model.                                                    *)

\* Records held by previous_state and current_results together.
MaxRecs == 3
\* Largest remaining count a record carries.
MaxRemaining == 2
\* Lines of a page text handed to a parser.
MaxLines == 4
\* Calendar cells handed to the structured-cell parser.
MaxCells == 2
\* Records of the stored snapshot and of one run's results together.
MaxRunRecs == 2
\* Runs the scheduler starts, one after the other.
MaxRuns == 2

----------------------------------------------------------------------------
(* Configuration: GitHubActionsMonitor.__init__ / ComprehensiveParkMonitor *)

target_year == 2025
target_months == <<9, 10>>
weekend_days == {4, 5}
\* The first two entries of self.parks, in the catalogue's order.
parks == <<"Bukhansan", "Jirisan">>

ParkNames == {parks[i] : i \in 1..Len(parks)}
MonthSet == {target_months[i] : i \in 1..Len(target_months)}

----------------------------------------------------------------------------
(* Ordered dicts.                                                          *)

Keys(d) == {d[i].k : i \in 1..Len(d)}
HasKey(d, key) == key \in Keys(d)
Get(d, key) == d[CHOOSE i \in 1..Len(d) : d[i].k = key].v
\* d[key] = value: an existing key keeps its place, a new key goes last.
Put(d, key, value) ==
    IF HasKey(d, key)
    THEN [i \in 1..Len(d) |-> IF d[i].k = key THEN [k |-> key, v |-> value] ELSE d[i]]
    ELSE Append(d, [k |-> key, v |-> value])
AppendTo_Overwrite(d, key, x) == Put(d, key, <<x>>)

\* if key not in d: d[key] = []; then d[key].append(x)
AppendTo(d, key, x) ==
    IF HasKey(d, key) THEN Put(d, key, Append(Get(d, key), x)) ELSE Put(d, key, <<x>>)

----------------------------------------------------------------------------
(* json.dump / json.load                                                   *)
(* A JSON value is [t |-> its JSON type, x |-> its content]; an object's   *)
(* content is the sequence of its members, in document order.              *)

JsonString(s) == [t |-> "string", x |-> s]
JsonNumber(n) == [t |-> "number", x |-> n]
JsonArray(items) == [t |-> "array", x |-> items]
JsonObject(members) == [t |-> "object", x |-> members]

DumpDateInfo(date_info) ==
    JsonObject(<<[name |-> "date", value |-> JsonString(date_info.date)],
                 [name |-> "weekday", value |-> JsonString(date_info.weekday)],
                 [name |-> "remaining", value |-> JsonNumber(date_info.remaining)]>>)

DumpDates(dates) == JsonArray([i \in 1..Len(dates) |-> DumpDateInfo(dates[i])])

\* json.dump of a dict: one member per entry, in insertion order.
DumpMonths(months_data) ==
    JsonObject([j \in 1..Len(months_data) |->
                   [name |-> months_data[j].k, value |-> DumpDates(months_data[j].v)]])

\* json.dump(current_results, f, ensure_ascii=False, indent=2)
json_dump(results) ==
    JsonObject([i \in 1..Len(results) |->
                   [name |-> results[i].k, value |-> DumpMonths(results[i].v)]])

Member(object, name) == Get([i \in 1..Len(object.x) |->
                                [k |-> object.x[i].name, v |-> object.x[i].value]], name)

LoadDateInfo(object) ==
    [date |-> Member(object, "date").x,
     weekday |-> Member(object, "weekday").x,
     remaining |-> Member(object, "remaining").x]

LoadDates(array) == [i \in 1..Len(array.x) |-> LoadDateInfo(array.x[i])]

\* json.load of an object builds a dict member by member: a name met again
\* overwrites the earlier value in place.
RECURSIVE LoadMonthsFrom(_, _)
LoadMonthsFrom(d, members) ==
    IF members = <<>> THEN d
    ELSE LoadMonthsFrom(Put(d, Head(members).name, LoadDates(Head(members).value)),
                        Tail(members))

LoadMonths(object) == LoadMonthsFrom(<<>>, object.x)

RECURSIVE LoadParksFrom(_, _)
LoadParksFrom(d, members) ==
    IF members = <<>> THEN d
    ELSE LoadParksFrom(Put(d, Head(members).name, LoadMonths(Head(members).value)),
                       Tail(members))

\* json.load(f) of a document save_current_state wrote.
json_load(document) == LoadParksFrom(<<>>, document.x)

----------------------------------------------------------------------------
(* load_previous_state                                                     *)

\* knps_state.json: absent; holding part of a document (not JSON); or holding
\* a whole JSON document.
NoFile == [status |-> "absent", content |-> JsonArray(<<>>)]
CorruptFile == [status |-> "corrupt", content |-> JsonArray(<<>>)]
WrittenFile(results) == [status |-> "written", content |-> json_dump(results)]
\* A file holding the JSON document [], which is not a park -> month -> list dict.
MalformedFile == [status |-> "written", content |-> JsonArray(<<>>)]

load_previous_state_AlwaysEmpty(file) == <<>>

\* {} when the file does not exist or json.load raises, else what json.load
\* returns: a dict for an object, a list for an array.
load_previous_state(file) ==
    IF file.status = "written" /\ file.content.t = "object"
    THEN json_load(file.content)
    ELSE <<>>

\* type(state) of the value load_previous_state returns.
LoadedType(file) ==
    IF file.status = "written" /\ file.content.t = "array" THEN "list" ELSE "dict"

----------------------------------------------------------------------------
(* compare_states                                                          *)

\* The (key, data) pairs one park's months_data contributes, in loop order.
RECURSIVE MonthsEntries(_, _)
MonthsEntries(park_name, months_data) ==
    IF months_data = <<>> THEN <<>>
    ELSE LET month_name == Head(months_data).k
             dates == Head(months_data).v
         IN  [i \in 1..Len(dates) |->
                 [k |-> <<park_name, dates[i].date>>,
                  v |-> [park |-> park_name, month |-> month_name,
                         date |-> dates[i].date, weekday |-> dates[i].weekday,
                         remaining |-> dates[i].remaining]]]
             \o MonthsEntries(park_name, Tail(months_data))

RECURSIVE StateEntries(_)
StateEntries(state) ==
    IF state = <<>> THEN <<>>
    ELSE MonthsEntries(Head(state).k, Head(state).v) \o StateEntries(Tail(state))

RECURSIVE PutAll(_, _)
PutAll(flat, entries) ==
    IF entries = <<>> THEN flat
    ELSE PutAll(Put(flat, Head(entries).k, Head(entries).v), Tail(entries))

\* current_flat / previous_flat: later entries of a key overwrite earlier ones.
Flatten(state) == PutAll(<<>>, StateEntries(state))

EmptyChanges == [new |-> <<>>, removed |-> <<>>, updated |-> <<>>]

UpdatedEntry_Swapped(data, prev) ==
    [park |-> data.park, month |-> data.month, date |-> data.date,
     weekday |-> data.weekday, remaining |-> data.remaining,
     prev_remaining |-> data.remaining, curr_remaining |-> prev.remaining]

UpdatedEntry(data, prev) ==
    [park |-> data.park, month |-> data.month, date |-> data.date,
     weekday |-> data.weekday, remaining |-> data.remaining,
     prev_remaining |-> prev.remaining, curr_remaining |-> data.remaining]

ClassifyCurrent_AlwaysUpdated(ch, key, data, previous_flat) ==
    IF ~HasKey(previous_flat, key)
    THEN [ch EXCEPT !.new = AppendTo(@, data.park, data)]
    ELSE [ch EXCEPT !.updated =
             AppendTo(@, data.park, UpdatedEntry(data, Get(previous_flat, key)))]

\* One iteration of "for key, data in current_flat.items()".
ClassifyCurrent(ch, key, data, previous_flat) ==
    IF ~HasKey(previous_flat, key)
    THEN [ch EXCEPT !.new = AppendTo(@, data.park, data)]
    ELSE IF Get(previous_flat, key).remaining # data.remaining
         THEN [ch EXCEPT !.updated =
                  AppendTo(@, data.park, UpdatedEntry(data, Get(previous_flat, key)))]
         ELSE ch

ClassifyPrevious_AlwaysRemoved(ch, key, data, current_flat) ==
    [ch EXCEPT !.removed = AppendTo(@, data.park, data)]

\* One iteration of "for key, data in previous_flat.items()".
ClassifyPrevious(ch, key, data, current_flat) ==
    IF ~HasKey(current_flat, key)
    THEN [ch EXCEPT !.removed = AppendTo(@, data.park, data)]
    ELSE ch

RECURSIVE CurrentLoop(_, _, _)
CurrentLoop(ch, items, previous_flat) ==
    IF items = <<>> THEN ch
    ELSE CurrentLoop(ClassifyCurrent(ch, Head(items).k, Head(items).v, previous_flat),
                     Tail(items), previous_flat)

RECURSIVE PreviousLoop(_, _, _)
PreviousLoop(ch, items, current_flat) ==
    IF items = <<>> THEN ch
    ELSE PreviousLoop(ClassifyPrevious(ch, Head(items).k, Head(items).v, current_flat),
                      Tail(items), current_flat)

compare_states(prev, cur) ==
    LET current_flat == Flatten(cur)
        previous_flat == Flatten(prev)
    IN  PreviousLoop(CurrentLoop(EmptyChanges, current_flat, previous_flat),
                     previous_flat, current_flat)

compare_loaded_IgnoresPrevious(ptype, prev, cur) == compare_states(<<>>, cur)

\* compare_states on what load_previous_state returned: previous_state.items()
\* raises on a list, and the handler returns changes as it was initialised.
compare_loaded(ptype, prev, cur) ==
    IF ptype = "dict" THEN compare_states(prev, cur) ELSE EmptyChanges

----------------------------------------------------------------------------
(* Dates of the target year.                                               *)

DaysInMonth(month) ==
    CASE month \in {4, 6, 9, 11} -> 30
      [] month = 2 -> 28
      [] OTHER -> 31

RECURSIVE DaysBefore(_)
DaysBefore(month) == IF month = 1 THEN 0 ELSE DaysInMonth(month - 1) + DaysBefore(month - 1)

\* datetime(2025, month, day) raises ValueError.
InvalidDate(month, day) == day < 1 \/ day > DaysInMonth(month)

\* datetime(2025, month, day).weekday(): Monday is 0; 2025-01-01 is a Wednesday.
Weekday(month, day) == (2 + DaysBefore(month) + day - 1) % 7

weekday_name(weekday_num) == IF weekday_num = 4 THEN "Friday" ELSE "Saturday"

\* The date_info dict the parsers build.
DateInfo(month, day, remaining) ==
    [date |-> <<target_year, month, day>>,
     weekday |-> weekday_name(Weekday(month, day)),
     remaining |-> remaining]


----------------------------------------------------------------------------
(* Raw calendar content.                                                   *)
(* A page text is a sequence of lines; a line is modelled by what the      *)
(* parsers' regular expressions see in it:                                 *)
(*   day   - the stripped line is one or two digits, n its value;          *)
(*   rem   - the line reads "생활관 : 잔여 n 개";                          *)
(*   glyph - the line is one weekday glyph, and matches neither pattern.   *)
(* A calendar cell is what extract_visible_calendar_data reads of it:      *)
(* whether it is displayed, the first number of its text, and the count of *)
(* its remaining clause (NoRemaining when the cell has no such clause).    *)

NoRemaining == -1
\* 2025-09: Friday, Saturday, Sunday, no such day.  2025-10: Sunday, Monday,
\* Tuesday, Friday.
DayNumbers == {5, 6, 7, 31}

Lines ==
    [t : {"day"}, n : DayNumbers] \cup [t : {"rem"}, n : 0..MaxRemaining]
        \cup {[t |-> "glyph", n |-> 0]}
Cells == [displayed : BOOLEAN, day : DayNumbers, remaining : {NoRemaining} \cup 0..MaxRemaining]

SeqsUpTo(S, n) == UNION {[1..k -> S] : k \in 0..n}

Min(a, b) == IF a < b THEN a ELSE b

----------------------------------------------------------------------------
(* parse_weekend_availability_old (line-proximity strategy)                *)

\* range(i+1, min(len(lines), i+10)): the lines searched for a remaining clause.
window == 10

\* What a (day, remaining) pair adds to available_dates.
OldCandidate_NoPositiveCheck(m, day, remaining) ==
    IF InvalidDate(m, day) THEN <<>>
    ELSE IF Weekday(m, day) \in weekend_days
         THEN <<DateInfo(m, day, remaining)>> ELSE <<>>

OldCandidate(m, day, remaining) ==
    IF InvalidDate(m, day) THEN <<>>
    ELSE IF Weekday(m, day) \in weekend_days /\ remaining > 0
         THEN <<DateInfo(m, day, remaining)>> ELSE <<>>

\* One iteration of "for i, line in enumerate(lines)" (i counts from 1 here).
OldLine(lines, i, m) ==
    IF lines[i].t # "day" THEN <<>>
    ELSE LET found == {j \in (i + 1)..Min(Len(lines), i + window - 1) : lines[j].t = "rem"}
         IN  IF found = {} THEN <<>>
             ELSE LET first == CHOOSE j \in found : \A j2 \in found : j <= j2
                  IN  OldCandidate(m, lines[i].n, lines[first].n)

RECURSIVE OldLoop(_, _, _)
OldLoop(lines, i, m) ==
    IF i > Len(lines) THEN <<>> ELSE OldLine(lines, i, m) \o OldLoop(lines, i + 1, m)

parse_weekend_availability_old(page_text, m) == OldLoop(page_text, 1, m)

----------------------------------------------------------------------------
(* parse_weekend_availability_enhanced (structured-cell strategy)          *)

\* One iteration of "for cell in calendar_cells".
ExtractCell(cell) ==
    IF ~cell.displayed \/ cell.remaining = NoRemaining THEN <<>>
    ELSE <<[day |-> cell.day, remaining |-> cell.remaining]>>

RECURSIVE extract_visible_calendar_data(_)
extract_visible_calendar_data(cells) ==
    IF cells = <<>> THEN <<>>
    ELSE ExtractCell(Head(cells)) \o extract_visible_calendar_data(Tail(cells))

\* One iteration of "for data in calendar_data".
EnhancedCandidate(m, data) ==
    IF data.remaining <= 0 THEN <<>>
    ELSE IF InvalidDate(m, data.day) THEN <<>>
         ELSE IF Weekday(m, data.day) \in weekend_days
              THEN <<DateInfo(m, data.day, data.remaining)>> ELSE <<>>

RECURSIVE EnhancedLoop(_, _)
EnhancedLoop(calendar_data, m) ==
    IF calendar_data = <<>> THEN <<>>
    ELSE EnhancedCandidate(m, Head(calendar_data)) \o EnhancedLoop(Tail(calendar_data), m)

\* The try block's result when nothing in it raises.
EnhancedResult(cells, m) == EnhancedLoop(extract_visible_calendar_data(cells), m)

----------------------------------------------------------------------------
(* ComprehensiveParkMonitor.parse_weekend_availability                     *)
(* (single-pattern strategy: day, weekday glyph and remaining clause on    *)
(* three consecutive lines)                                                *)

PatternCandidate(m, day, remaining) ==
    IF InvalidDate(m, day) THEN <<>>
    ELSE IF Weekday(m, day) \in weekend_days /\ remaining > 0
         THEN <<DateInfo(m, day, remaining)>> ELSE <<>>

\* re.findall's match starting at line i, if any.
PatternMatch(lines, i, m) ==
    IF /\ i + 2 <= Len(lines)
       /\ lines[i].t = "day" /\ lines[i + 1].t = "glyph" /\ lines[i + 2].t = "rem"
    THEN PatternCandidate(m, lines[i].n, lines[i + 2].n)
    ELSE <<>>

RECURSIVE PatternLoop(_, _, _)
PatternLoop(lines, i, m) ==
    IF i > Len(lines) THEN <<>> ELSE PatternMatch(lines, i, m) \o PatternLoop(lines, i + 1, m)

parse_weekend_availability(page_text, m) == PatternLoop(page_text, 1, m)

----------------------------------------------------------------------------
(* SpecParse: the three parsers applied to bounded raw content.            *)

NoRaw == [shape |-> "none", content |-> <<>>]

ParseIdle ==
    /\ raw = NoRaw
    /\ month_arg = 0
    /\ parser = "none"
    /\ available_dates = <<>>

DiffIdle ==
    /\ previous_state = <<>>
    /\ current_results = <<>>
    /\ changes = EmptyChanges

\* The repository: the snapshot committed at HEAD, and what the save of this
\* run logged of its file write, its commit and its push.
Repo(head) == [head |-> head, write |-> "none", commit |-> "none", push |-> "none"]

RunIdle ==
    /\ state_file = NoFile
    /\ park_i = 0
    /\ sent = <<>>
    /\ success = "none"
    /\ previous_type = "dict"
    /\ repo = Repo(NoFile)
    /\ run = 0

InitParse ==
    /\ pc = "raw"
    /\ month_arg \in MonthSet
    /\ \/ \E text \in SeqsUpTo(Lines, MaxLines) : raw = [shape |-> "text", content |-> text]
       \/ \E cells \in SeqsUpTo(Cells, MaxCells) : raw = [shape |-> "cells", content |-> cells]
    /\ parser = "none"
    /\ available_dates = <<>>
    /\ DiffIdle
    /\ RunIdle

\* parse_weekend_availability_enhanced: the try block runs to its end.
ParseEnhanced ==
    /\ pc = "raw" /\ raw.shape = "cells"
    /\ available_dates' = EnhancedResult(raw.content, month_arg)
    /\ parser' = "structured-cell"
    /\ pc' = "parsed"
    /\ UNCHANGED <<raw, month_arg, diffVars, runVars>>

\* parse_weekend_availability_enhanced: the try block raises and the handler
\* falls back to parse_weekend_availability_old on the body text.
ParseEnhancedFallback ==
    /\ pc = "raw" /\ raw.shape = "text"
    /\ available_dates' = parse_weekend_availability_old(raw.content, month_arg)
    /\ parser' = "line-proximity"
    /\ pc' = "parsed"
    /\ UNCHANGED <<raw, month_arg, diffVars, runVars>>

\* parse_weekend_availability_enhanced: the try block raises and so does the
\* handler's read of the body text.
ParseEnhancedFailed ==
    /\ pc = "raw"
    /\ available_dates' = <<>>
    /\ parser' = "failed"
    /\ pc' = "parsed"
    /\ UNCHANGED <<raw, month_arg, diffVars, runVars>>

\* ComprehensiveParkMonitor.parse_weekend_availability on the body text.
ParsePattern ==
    /\ pc = "raw" /\ raw.shape = "text"
    /\ available_dates' = parse_weekend_availability(raw.content, month_arg)
    /\ parser' = "single-pattern"
    /\ pc' = "parsed"
    /\ UNCHANGED <<raw, month_arg, diffVars, runVars>>

NextParse == ParseEnhanced \/ ParseEnhancedFallback \/ ParseEnhancedFailed \/ ParsePattern

SpecParse == InitParse /\ [][NextParse]_vars

----------------------------------------------------------------------------
(* Inputs of compare_states: observation sets as the program builds them.  *)
(* Parks come in the catalogue's order, months in target_months' order;    *)
(* a month's list holds dates of that month, in any order, possibly        *)
(* repeated (the parsers neither sort nor deduplicate).                    *)

\* Days of the month that are Fridays or Saturdays, among the first two weeks.
CandidateDays(month) ==
    {d \in 1..7 : ~InvalidDate(month, d) /\ Weekday(month, d) \in weekend_days}

MonthsOf(state, park_name) == IF HasKey(state, park_name) THEN Get(state, park_name) ELSE <<>>
DatesOf(state, park_name, month) ==
    IF HasKey(MonthsOf(state, park_name), month)
    THEN Get(MonthsOf(state, park_name), month) ELSE <<>>

\* The dict holding, in configuration order, the months (parks) with a value.
RECURSIVE MonthsDict(_, _)
MonthsDict(f, i) ==
    IF i > Len(target_months) THEN <<>>
    ELSE (IF f[target_months[i]] = <<>> THEN <<>>
          ELSE <<[k |-> target_months[i], v |-> f[target_months[i]]]>>)
         \o MonthsDict(f, i + 1)

RECURSIVE ParksDict(_, _)
ParksDict(g, i) ==
    IF i > Len(parks) THEN <<>>
    ELSE (IF MonthsDict(g[parks[i]], 1) = <<>> THEN <<>>
          ELSE <<[k |-> parks[i], v |-> MonthsDict(g[parks[i]], 1)]>>)
         \o ParksDict(g, i + 1)

\* state with date_info appended to park_name's list of that month.
WithRecord(state, park_name, month, date_info) ==
    ParksDict([p \in ParkNames |-> [m \in MonthSet |->
                  IF p = park_name /\ m = month
                  THEN Append(DatesOf(state, p, m), date_info)
                  ELSE DatesOf(state, p, m)]], 1)

RECURSIVE CountMonths(_)
CountMonths(months_data) ==
    IF months_data = <<>> THEN 0
    ELSE Len(Head(months_data).v) + CountMonths(Tail(months_data))

RECURSIVE CountRecords(_)
CountRecords(state) ==
    IF state = <<>> THEN 0
    ELSE CountMonths(Head(state).v) + CountRecords(Tail(state))

----------------------------------------------------------------------------
(* SpecDiff: compare_states applied to bounded inputs.                     *)

InitDiff ==
    /\ pc = "input"
    /\ previous_state = <<>>
    /\ current_results = <<>>
    /\ changes = EmptyChanges
    /\ ParseIdle
    /\ RunIdle

\* The stored snapshot holds one more record.
AddPrevious ==
    /\ pc = "input"
    /\ CountRecords(previous_state) + CountRecords(current_results) < MaxRecs
    /\ \E p \in ParkNames, m \in MonthSet :
         \E d \in CandidateDays(m), r \in 1..MaxRemaining :
            previous_state' = WithRecord(previous_state, p, m, DateInfo(m, d, r))
    /\ UNCHANGED <<pc, current_results, changes, parseVars, runVars>>

\* This run observes one more record.
AddCurrent ==
    /\ pc = "input"
    /\ CountRecords(previous_state) + CountRecords(current_results) < MaxRecs
    /\ \E p \in ParkNames, m \in MonthSet :
         \E d \in CandidateDays(m), r \in 1..MaxRemaining :
            current_results' = WithRecord(current_results, p, m, DateInfo(m, d, r))
    /\ UNCHANGED <<pc, previous_state, changes, parseVars, runVars>>

\* This run observes exactly what the last run stored.
SameAsPrevious ==
    /\ pc = "input"
    /\ current_results = <<>>
    /\ previous_state # <<>>
    /\ current_results' = previous_state
    /\ UNCHANGED <<pc, previous_state, changes, parseVars, runVars>>

CompareStates ==
    /\ pc = "input"
    /\ changes' = compare_states(previous_state, current_results)
    /\ pc' = "compared"
    /\ UNCHANGED <<previous_state, current_results, parseVars, runVars>>

NextDiff == AddPrevious \/ AddCurrent \/ SameAsPrevious \/ CompareStates

SpecDiff == InitDiff /\ [][NextDiff]_vars


----------------------------------------------------------------------------
(* check_park_availability / check_all_parks (both monitors)               *)


\* The first Friday or Saturday of the month: the day a run's fetches report on.
FirstCandidateDay(m) == CHOOSE d \in CandidateDays(m) : \A e \in CandidateDays(m) : d <= e

\* The lists a parser can return for a month, of at most n records.
MonthLists(m, n) ==
    SeqsUpTo({DateInfo(m, FirstCandidateDay(m), r) : r \in 1..MaxRemaining}, n)

\* The result dicts "for month in self.target_months" can build from the i-th
\* month on, of at most n records: a month whose navigation fails is skipped,
\* any other gets the parser's list.
RECURSIVE MonthsOutcomes(_, _)
MonthsOutcomes(i, n) ==
    IF i > Len(target_months) THEN {<<>>}
    ELSE MonthsOutcomes(i + 1, n)
         \cup UNION {{<<[k |-> target_months[i], v |-> l]>> \o rest
                        : rest \in MonthsOutcomes(i + 1, n - Len(l))}
                     : l \in MonthLists(target_months[i], n)}

\* What check_park_availability can return: {} (no driver, an exception, or no
\* month reached) or a result dict.
ParkResults ==
    MonthsOutcomes(1, MaxRunRecs - CountRecords(load_previous_state(state_file))
                          - CountRecords(current_results))

\* if park_result: all_results[park_name] = park_result
WithParkResult(all_results, park_name, park_result) ==
    IF park_result # <<>> THEN Append(all_results, [k |-> park_name, v |-> park_result])
    ELSE all_results

----------------------------------------------------------------------------
(* GitHubActionsMonitor: load_previous_state, send_change_notification,    *)
(* save_current_state, run_single_check                                    *)

AnyChanges_DictTruthiness(ch) == TRUE

AnyChanges_IgnoresRemoved(ch) == ch.new # <<>> \/ ch.updated # <<>>

\* any(changes.values())
AnyChanges(ch) == ch.new # <<>> \/ ch.removed # <<>> \/ ch.updated # <<>>

\* park_dates: the month lists of a park, one after the other.
ParkDates_FirstMonthOnly(months_data) ==
    IF months_data = <<>> THEN <<>> ELSE Head(months_data).v

RECURSIVE ParkDates(_)
ParkDates(months_data) ==
    IF months_data = <<>> THEN <<>>
    ELSE Head(months_data).v \o ParkDates(Tail(months_data))

\* The parks the message lists, each with its dates, in current_results' order.
RECURSIVE MessageParks(_)
MessageParks(results) ==
    IF results = <<>> THEN <<>>
    ELSE (IF ParkDates(Head(results).v) # <<>>
          THEN <<[k |-> Head(results).k, v |-> ParkDates(Head(results).v)]>>
          ELSE <<>>)
         \o MessageParks(Tail(results))

\* The message send_change_notification builds.
ChangeMessage(results) ==
    [kind |-> "change", parks |-> MessageParks(results),
     total_available |-> CountRecords(results)]

ErrorMessage == [kind |-> "error", parks |-> <<>>, total_available |-> 0]

\* The messages send_change_notification hands to the channel.
ChangeNotification(ch, results) ==
    IF ~AnyChanges(ch) THEN <<>> ELSE <<ChangeMessage(results)>>

\* The first run finds no snapshot, or one that somebody else put there.
InitRun ==
    /\ pc = "load"
    /\ state_file \in {NoFile, MalformedFile}
    /\ park_i = 0
    /\ sent = <<>>
    /\ success = "none"
    /\ previous_type = "dict"
    /\ repo = Repo(state_file)
    /\ run = 1
    /\ DiffIdle
    /\ ParseIdle

\* run_single_check: previous_state = self.load_previous_state()
LoadPreviousState ==
    /\ pc = "load"
    /\ previous_state' = load_previous_state(state_file)
    /\ previous_type' = LoadedType(state_file)
    /\ park_i' = 1
    /\ pc' = "check"
    /\ UNCHANGED <<current_results, changes, parseVars, state_file, sent, success,
                   repo, run>>

\* check_all_parks: one iteration of "for park_name in self.parks.keys()".
CheckPark ==
    /\ pc = "check"
    /\ park_i <= Len(parks)
    /\ \E park_result \in ParkResults :
          current_results' = WithParkResult(current_results, parks[park_i], park_result)
    /\ park_i' = park_i + 1
    /\ pc' = IF park_i = Len(parks) THEN "compare" ELSE "check"
    /\ UNCHANGED <<previous_state, changes, parseVars, state_file, sent, success,
                   previous_type, repo, run>>

\* check_park_availability: driver.quit() raises in the finally block; the
\* exception reaches run_single_check's handler, which sends the error message
\* and returns False.
CheckParkRaises ==
    /\ pc = "check"
    /\ park_i <= Len(parks)
    /\ sent' = Append(sent, ErrorMessage)
    /\ success' = "False"
    /\ pc' = "failed"
    /\ UNCHANGED <<diffVars, parseVars, state_file, park_i, previous_type, repo, run>>

\* run_single_check: changes = self.compare_states(previous_state, current_results)
Compare ==
    /\ pc = "compare"
    /\ changes' = compare_loaded(previous_type, previous_state, current_results)
    /\ pc' = "notify"
    /\ UNCHANGED <<previous_state, current_results, parseVars, runVars>>

\* run_single_check: the if any(changes.values()) statement; the channel answers
\* True or False to a message it is handed.
Notify ==
    /\ pc = "notify"
    /\ IF AnyChanges(changes)
       THEN /\ sent' = sent \o ChangeNotification(changes, current_results)
            /\ success' \in (IF ChangeNotification(changes, current_results) = <<>>
                             THEN {"False"} ELSE {"True", "False"})
       ELSE /\ sent' = sent
            /\ success' = "True"
    /\ pc' = "save"
    /\ UNCHANGED <<diffVars, parseVars, state_file, park_i, previous_type, repo, run>>

\* git commit and what the code logs of it.  With the index equal to HEAD git
\* exits non-zero and adds nothing; its output reads "nothing to commit, working
\* tree clean" (logged as "no change", at info level) or, with untracked files
\* about such as the debug_logs the parser writes, "nothing added to commit but
\* untracked files present" (logged as a failed commit, at error level).
\* Otherwise it adds a commit.  Either way it can fail for another reason.
GitCommit(file, head) ==
    IF file = head
    THEN {[head |-> head, commit |-> "unchanged"],
          [head |-> head, commit |-> "unchanged-logged-failed"],
          [head |-> head, commit |-> "failed"]}
    ELSE {[head |-> file, commit |-> "done"], [head |-> head, commit |-> "failed"]}

\* What save_current_state can leave behind: open() raises; the write raises
\* part-way; git config or git add raises; or commit and push each succeed or
\* fail.  Every exception is caught and logged.
save_current_state(file, head, results) ==
    {[file |-> file, repo |-> [Repo(head) EXCEPT !.write = "failed"]],
     [file |-> CorruptFile, repo |-> [Repo(head) EXCEPT !.write = "failed"]],
     [file |-> WrittenFile(results), repo |-> [Repo(head) EXCEPT !.write = "done"]]}
    \cup {[file |-> WrittenFile(results),
           repo |-> [head |-> c.head, write |-> "done", commit |-> c.commit, push |-> p]]
             : c \in GitCommit(WrittenFile(results), head), p \in {"done", "failed"}}

\* What a process stopped inside save_current_state leaves behind: the old file,
\* the file truncated by open(.., 'w') or written in part, or the new file,
\* committed or not.
save_interrupted(file, head, results) ==
    {[file |-> file, repo |-> Repo(head)],
     [file |-> CorruptFile, repo |-> Repo(head)],
     [file |-> WrittenFile(results), repo |-> Repo(head)],
     [file |-> WrittenFile(results), repo |-> Repo(WrittenFile(results))]}

SaveCurrentState_FailureFlips ==
    /\ pc = "save"
    /\ \E o \in save_current_state(state_file, repo.head, current_results) :
          /\ state_file' = o.file /\ repo' = o.repo
          /\ success' = IF o.repo.write = "failed" THEN "False" ELSE success
    /\ pc' = "done"
    /\ UNCHANGED <<diffVars, parseVars, park_i, sent, previous_type, run>>

\* run_single_check: self.save_current_state(current_results); return success
SaveCurrentState ==
    /\ pc = "save"
    /\ \E o \in save_current_state(state_file, repo.head, current_results) :
          state_file' = o.file /\ repo' = o.repo
    /\ pc' = "done"
    /\ UNCHANGED <<diffVars, parseVars, park_i, sent, success, previous_type, run>>

\* The process is stopped while save_current_state runs.
SaveInterrupted ==
    /\ pc = "save"
    /\ \E o \in save_interrupted(state_file, repo.head, current_results) :
          state_file' = o.file /\ repo' = o.repo
    /\ pc' = "stopped"
    /\ UNCHANGED <<diffVars, parseVars, park_i, sent, success, previous_type, run>>

\* The scheduler starts the next run, a new process.
NextRun ==
    /\ pc \in {"done", "failed", "stopped"}
    /\ run < MaxRuns
    /\ run' = run + 1
    /\ pc' = "load"
    /\ previous_state' = <<>>
    /\ current_results' = <<>>
    /\ changes' = EmptyChanges
    /\ park_i' = 0
    /\ sent' = <<>>
    /\ success' = "none"
    /\ previous_type' = "dict"
    /\ repo' = Repo(repo.head)
    /\ UNCHANGED <<parseVars, state_file>>

NextRunSpec ==
    \/ LoadPreviousState \/ CheckPark \/ CheckParkRaises \/ Compare \/ Notify
    \/ SaveCurrentState \/ SaveInterrupted \/ NextRun

SpecRun == InitRun /\ [][NextRunSpec]_vars

----------------------------------------------------------------------------
(* ComprehensiveParkMonitor: one full check (main, choice "1")             *)

\* A park of all_results with a date in some month.
HasAvailability(months_data) == \E j \in 1..Len(months_data) : months_data[j].v # <<>>

RECURSIVE AvailableParks(_)
AvailableParks(all_results) ==
    IF all_results = <<>> THEN <<>>
    ELSE (IF HasAvailability(Head(all_results).v) THEN <<Head(all_results)>> ELSE <<>>)
         \o AvailableParks(Tail(all_results))

\* The messages send_comprehensive_report hands to the channel.
ComprehensiveReport_SilentWhenNone(all_results) ==
    IF AvailableParks(all_results) = <<>> THEN <<>>
    ELSE <<[kind |-> "available", parks |-> AvailableParks(all_results)]>>

send_comprehensive_report(all_results) ==
    IF all_results = <<>> THEN <<>>
    ELSE IF AvailableParks(all_results) = <<>>
         THEN <<[kind |-> "none-available", parks |-> <<>>]>>
         ELSE <<[kind |-> "available", parks |-> AvailableParks(all_results)]>>

InitReport ==
    /\ pc = "ma_check"
    /\ state_file = NoFile
    /\ park_i = 1
    /\ sent = <<>>
    /\ success = "none"
    /\ previous_type = "dict"
    /\ repo = Repo(NoFile)
    /\ run = 0
    /\ DiffIdle
    /\ ParseIdle

\* check_all_parks: one iteration of "for park_name in self.parks.keys()".
MA_CheckPark ==
    /\ pc = "ma_check"
    /\ park_i <= Len(parks)
    /\ \E park_result \in ParkResults :
          current_results' = WithParkResult(current_results, parks[park_i], park_result)
    /\ park_i' = park_i + 1
    /\ pc' = IF park_i = Len(parks) THEN "ma_report" ELSE "ma_check"
    /\ UNCHANGED <<previous_state, changes, parseVars, state_file, sent, success,
                   previous_type, repo, run>>

\* check_park_availability: driver.quit() raises in the finally block; nothing
\* in main catches it.
MA_CheckParkRaises ==
    /\ pc = "ma_check"
    /\ park_i <= Len(parks)
    /\ pc' = "ma_crashed"
    /\ UNCHANGED <<diffVars, parseVars, runVars>>

\* main: monitor.send_comprehensive_report(all_results)
MA_SendReport ==
    /\ pc = "ma_report"
    /\ sent' = sent \o send_comprehensive_report(current_results)
    /\ pc' = "ma_reported"
    /\ UNCHANGED <<diffVars, parseVars, state_file, park_i, success, previous_type, repo, run>>

NextReport == MA_CheckPark \/ MA_CheckParkRaises \/ MA_SendReport

SpecReport == InitReport /\ [][NextReport]_vars

----------------------------------------------------------------------------
(* Vocabulary of the diff claims, read off the inputs and the result       *)
(* position by position (not through Flatten).                             *)

\* Every record an observation set lists, with its park and month.
InputRecords(state) ==
    UNION {UNION {{[park |-> state[i].k, month |-> state[i].v[j].k,
                    date |-> state[i].v[j].v[n].date,
                    weekday |-> state[i].v[j].v[n].weekday,
                    remaining |-> state[i].v[j].v[n].remaining]
                   : n \in 1..Len(state[i].v[j].v)}
                  : j \in 1..Len(state[i].v)}
           : i \in 1..Len(state)}

\* The data model's uniqueness invariant: one record per (park, date).
UniqueKeys(state) ==
    /\ CountRecords(state) = Cardinality(InputRecords(state))
    /\ \A a, b \in InputRecords(state) : (a.park = b.park /\ a.date = b.date) => a = b

HasKeyIn(state, park_name, date) ==
    \E r \in InputRecords(state) : r.park = park_name /\ r.date = date

\* The entries of one category, each with the park it is filed under and its place.
GroupEntries(cat) ==
    UNION {{[group |-> cat[i].k, idx |-> n, e |-> cat[i].v[n]] : n \in 1..Len(cat[i].v)}
           : i \in 1..Len(cat)}

\* The entries of a category that are about (park_name, date).
Hits(cat, park_name, date) ==
    {x \in GroupEntries(cat) : x.e.date = date /\ (x.group = park_name \/ x.e.park = park_name)}

DateLess(a, b) ==
    \/ a[1] < b[1]
    \/ a[1] = b[1] /\ a[2] < b[2]
    \/ a[1] = b[1] /\ a[2] = b[2] /\ a[3] < b[3]

Compared == pc = "compared"

\* C1: a key in both sets with different remaining is in updated[park] once, with
\* the previous and the current remaining, and in neither new nor removed; a key
\* in both sets with equal remaining is in no category.  (Observation sets: one
\* record per key.)
C1_UpdateDetection ==
    (Compared /\ UniqueKeys(previous_state) /\ UniqueKeys(current_results)) =>
        \A p \in InputRecords(previous_state), c \in InputRecords(current_results) :
            (p.park = c.park /\ p.date = c.date) =>
                /\ Hits(changes.new, c.park, c.date) = {}
                /\ Hits(changes.removed, c.park, c.date) = {}
                /\ IF p.remaining # c.remaining
                   THEN /\ Cardinality(Hits(changes.updated, c.park, c.date)) = 1
                        /\ \A x \in Hits(changes.updated, c.park, c.date) :
                              /\ x.group = c.park
                              /\ x.e.park = c.park
                              /\ x.e.weekday = c.weekday
                              /\ x.e.prev_remaining = p.remaining
                              /\ x.e.curr_remaining = c.remaining
                   ELSE Hits(changes.updated, c.park, c.date) = {}

C1_Witness ==
    /\ Compared /\ UniqueKeys(previous_state) /\ UniqueKeys(current_results)
    /\ CountRecords(current_results) = 2
    /\ \E p \in InputRecords(previous_state), c \in InputRecords(current_results) :
          /\ p.park = c.park /\ p.date = c.date /\ p.remaining # c.remaining
          /\ Hits(changes.updated, c.park, c.date) # {}

\* C2: compare_states(S, S) has empty new, removed and updated.
C2_DiffIdentity ==
    (Compared /\ previous_state = current_results) => changes = EmptyChanges

C2_Witness ==
    /\ Compared /\ previous_state = current_results
    /\ CountRecords(current_results) = MaxRecs
    /\ changes = EmptyChanges

\* C3: compare_states(empty, S) files every record of S under new[its park] exactly
\* once and nothing else, and leaves removed and updated empty.
C3_DiffFromEmpty ==
    (Compared /\ previous_state = <<>> /\ UniqueKeys(current_results)) =>
        /\ changes.removed = <<>>
        /\ changes.updated = <<>>
        /\ \A r \in InputRecords(current_results) :
              Cardinality({x \in GroupEntries(changes.new) : x.group = r.park /\ x.e = r}) = 1
        /\ \A x \in GroupEntries(changes.new) :
              x.e \in InputRecords(current_results) /\ x.group = x.e.park
        /\ Cardinality(GroupEntries(changes.new)) = CountRecords(current_results)

C3_Witness ==
    /\ Compared /\ previous_state = <<>> /\ UniqueKeys(current_results)
    /\ Len(current_results) = 2
    /\ CountRecords(current_results) = MaxRecs
    /\ Cardinality(GroupEntries(changes.new)) = MaxRecs

\* C4: a record is in removed[park] exactly when its key is in previous and not in
\* current, and the entry is the previous record (date, weekday, remaining);
\* compare_states(S, empty) has removed = all of S, new and updated empty.
C4_Removed ==
    (Compared /\ UniqueKeys(previous_state) /\ UniqueKeys(current_results)) =>
        /\ \A p \in InputRecords(previous_state) :
              Cardinality({x \in GroupEntries(changes.removed) : x.group = p.park /\ x.e = p})
                  = IF HasKeyIn(current_results, p.park, p.date) THEN 0 ELSE 1
        /\ \A x \in GroupEntries(changes.removed) :
              /\ x.e \in InputRecords(previous_state)
              /\ x.group = x.e.park
              /\ ~HasKeyIn(current_results, x.e.park, x.e.date)
        /\ Cardinality(GroupEntries(changes.removed))
              = Cardinality({p \in InputRecords(previous_state) :
                                ~HasKeyIn(current_results, p.park, p.date)})
        /\ current_results = <<>> =>
              /\ changes.new = <<>>
              /\ changes.updated = <<>>
              /\ Cardinality(GroupEntries(changes.removed)) = CountRecords(previous_state)

C4_Witness ==
    /\ Compared /\ UniqueKeys(previous_state) /\ UniqueKeys(current_results)
    /\ \E p, q \in InputRecords(previous_state) :
          /\ HasKeyIn(current_results, p.park, p.date)
          /\ ~HasKeyIn(current_results, q.park, q.date)
          /\ \E x \in GroupEntries(changes.removed) : x.e = q

\* The dates of every list of a category ascend.
DatesAscend(cat) ==
    \A i \in 1..Len(cat) : \A m, n \in 1..Len(cat[i].v) :
        m < n => DateLess(cat[i].v[m].date, cat[i].v[n].date)

\* The parks a category holds come in the catalogue's order.
RECURSIVE InCatalogueOrder(_, _)
InCatalogueOrder(cat, i) ==
    \/ cat = <<>>
    \/ /\ i <= Len(parks)
       /\ IF Head(cat).k = parks[i] THEN InCatalogueOrder(Tail(cat), i + 1)
          ELSE InCatalogueOrder(cat, i + 1)

\* C5: within new, removed and updated the entries of a park are in ascending date
\* order, whatever the order of the input lists, and parks come in a fixed order.
C5_AscendingDates ==
    Compared =>
        \A c \in {"new", "removed", "updated"} :
            DatesAscend(changes[c]) /\ InCatalogueOrder(changes[c], 1)

Parsed == pc = "parsed"

\* The Fridays and Saturdays of September and October 2025, from the calendar.
RelevantDates ==
    {<<2025, 9, d>> : d \in {5, 6, 12, 13, 19, 20, 26, 27}}
        \cup {<<2025, 10, d>> : d \in {3, 4, 10, 11, 17, 18, 24, 25, 31}}

\* The (day, remaining) candidates a raw content holds for some strategy.
RawCandidates ==
    IF raw.shape = "cells"
    THEN {[day |-> raw.content[i].day, remaining |-> raw.content[i].remaining]
             : i \in {i \in 1..Len(raw.content) :
                        raw.content[i].displayed /\ raw.content[i].remaining # NoRemaining}}
    ELSE {[day |-> raw.content[i].n, remaining |-> raw.content[j].n]
             : <<i, j>> \in {ij \in (1..Len(raw.content)) \X (1..Len(raw.content)) :
                        /\ ij[1] < ij[2]
                        /\ raw.content[ij[1]].t = "day"
                        /\ raw.content[ij[2]].t = "rem"}}

\* C6: every record a parsing strategy returns has remaining > 0 and a date of the
\* target month that is a Friday or a Saturday (so no candidate with remaining <= 0,
\* with another weekday, or with an impossible day of the month is returned), and
\* its weekday label is that day's.
C6_ParserFilters ==
    Parsed =>
        \A i \in 1..Len(available_dates) :
            /\ available_dates[i].remaining > 0
            /\ available_dates[i].date \in RelevantDates
            /\ available_dates[i].date[2] = month_arg
            /\ available_dates[i].weekday
                  = (IF available_dates[i].date[3] \in {5, 12, 19, 26, 3, 10, 17, 24, 31}
                     THEN "Friday" ELSE "Saturday")
            /\ \E c \in RawCandidates :
                  /\ c.day = available_dates[i].date[3]
                  /\ c.remaining = available_dates[i].remaining

\* A page whose candidates include a Sunday with seats and an impossible day with
\* seats, both dropped, and a Friday or Saturday with seats that is returned.
C6_Witness ==
    /\ Parsed /\ month_arg = 9 /\ parser = "line-proximity"
    /\ Len(available_dates) = 1
    /\ \E c \in RawCandidates : c.day = 7 /\ c.remaining > 0
    /\ \E c \in RawCandidates : c.day = 31 /\ c.remaining > 0

\* C7: the list a parser returns is deduplicated by date and sorted ascending: its
\* dates strictly increase.
C7_SortedDeduplicated ==
    Parsed =>
        \A i, j \in 1..Len(available_dates) :
            i < j => DateLess(available_dates[i].date, available_dates[j].date)

\* The (park, date, weekday, remaining) lines of a message, with their place.
MessageLines(msg) ==
    {[park |-> x.group, idx |-> x.idx, date |-> x.e.date, weekday |-> x.e.weekday,
      remaining |-> x.e.remaining] : x \in GroupEntries(msg.parks)}

Lists(msg, park_name, date, remaining) ==
    \E l \in MessageLines(msg) :
        l.park = park_name /\ l.date = date /\ l.remaining = remaining

ChangeMessages == {sent[i] : i \in {i \in 1..Len(sent) : sent[i].kind = "change"}}

\* C8: run_single_check hands a change message to the channel only if new, removed
\* or updated is non-empty; once compare_states has returned an empty change set the
\* run hands the channel no message at all, whatever current_results holds.
C8_NotifyOnlyOnChange ==
    /\ ChangeMessages # {} => changes # EmptyChanges
    /\ (pc \in {"save", "done"} /\ changes = EmptyChanges) => sent = <<>>

\* A run that found what the snapshot already held, and stayed silent.
C8_Witness ==
    /\ pc = "done"
    /\ changes = EmptyChanges
    /\ CountRecords(current_results) > 0
    /\ sent = <<>>
    /\ success = "True"

\* C9 as stated: the message lists every entry of new, of removed and of updated.
C9_MessageListsAllChanges ==
    \A msg \in ChangeMessages :
        \A c \in {"new", "removed", "updated"} :
            \A x \in GroupEntries(changes[c]) :
                \E l \in MessageLines(msg) : l.park = x.group /\ l.date = x.e.date

\* C9 as amended: the message lists the records of current_results, grouped by park
\* in current_results' order, each with its date, weekday and current remaining, and
\* nothing else; so every entry of new and of updated (with its current remaining) is
\* listed, and no entry of removed is.
C9_MessageListsCurrent ==
    \A msg \in ChangeMessages :
        /\ \A r \in InputRecords(current_results) :
              \E l \in MessageLines(msg) :
                  /\ l.park = r.park /\ l.date = r.date
                  /\ l.weekday = r.weekday /\ l.remaining = r.remaining
        /\ \A l \in MessageLines(msg) :
              \E r \in InputRecords(current_results) :
                  /\ l.park = r.park /\ l.date = r.date
                  /\ l.weekday = r.weekday /\ l.remaining = r.remaining
        /\ Cardinality(MessageLines(msg)) = CountRecords(current_results)
        /\ msg.total_available = CountRecords(current_results)
        /\ \A i, j \in 1..Len(msg.parks) :
              i < j => \E a, b \in 1..Len(current_results) :
                          /\ a < b
                          /\ current_results[a].k = msg.parks[i].k
                          /\ current_results[b].k = msg.parks[j].k
        /\ \A x \in GroupEntries(changes.new) :
              Lists(msg, x.group, x.e.date, x.e.remaining)
        /\ \A x \in GroupEntries(changes.updated) :
              Lists(msg, x.group, x.e.date, x.e.curr_remaining)
        /\ \A x \in GroupEntries(changes.removed) :
              ~\E l \in MessageLines(msg) : l.park = x.group /\ l.date = x.e.date

\* A message sent for a run in which one park's record is gone and another
\* park's record is new: it lists the new one only.
C9_Witness ==
    /\ pc = "done"
    /\ ChangeMessages # {}
    /\ changes.removed # <<>>
    /\ changes.new # <<>>
    /\ \E msg \in ChangeMessages : Len(msg.parks) = 1

Reported == pc = "ma_reported"

\* C10 as stated: a message is emitted exactly when all_results holds a record.
C10_SilentWhenNoRecord ==
    Reported => (sent # <<>> <=> CountRecords(current_results) > 0)

\* C10 as amended: a message is emitted exactly when all_results is non-empty, that
\* is when at least one park returned a result dict: the availability report when
\* some month list holds a record, the "none available" status message when every
\* month list of every fetched park is empty.
C10_ReportWhenFetched ==
    Reported =>
        /\ sent # <<>> <=> current_results # <<>>
        /\ Len(sent) <= 1
        /\ \A i \in 1..Len(sent) :
              /\ sent[i].kind = "available" <=> CountRecords(current_results) > 0
              /\ sent[i].kind = "none-available" <=> CountRecords(current_results) = 0
              /\ \A r \in InputRecords(current_results) :
                    \E j \in 1..Len(sent[i].parks) :
                        /\ sent[i].parks[j].k = r.park
                        /\ r \in InputRecords(<<sent[i].parks[j]>>)

\* Every park fetched, every month list empty: the status message goes out.
C10_Witness ==
    /\ Reported
    /\ Len(current_results) = Len(parks)
    /\ CountRecords(current_results) = 0
    /\ Len(sent) = 1
    /\ sent[1].kind = "none-available"

----------------------------------------------------------------------------
(* Claims about the snapshot store and the run as a whole.                 *)

\* The file holds a whole document written by save_current_state.
HoldsSnapshot(file) == file.status = "written" /\ file.content.t = "object"

\* The run reached compare_states' result.
AfterCompare == pc \in {"notify", "save", "done", "stopped"}

\* C11: when save_current_state has written the file, load_previous_state returns
\* a dict equal to the saved current_results, whatever became of git config, git
\* add, the commit and the push.
C11_SnapshotRoundTrip ==
    (pc = "done" /\ repo.write = "done") =>
        /\ load_previous_state(state_file) = current_results
        /\ LoadedType(state_file) = "dict"

\* Two parks with a record each are saved; commit and push both fail.
C11_Witness ==
    /\ pc = "done" /\ repo.write = "done"
    /\ repo.commit = "failed" /\ repo.push = "failed"
    /\ Len(current_results) = 2
    /\ CountRecords(current_results) = 2
    /\ load_previous_state(state_file) = current_results

\* C12: a process stopped at any point of save_current_state leaves a file from
\* which load_previous_state returns the whole old snapshot or the whole new one.
C12_SaveAtomic ==
    [][(pc = "save" /\ pc' = "stopped") =>
          \/ load_previous_state(state_file') = load_previous_state(state_file)
          \/ load_previous_state(state_file') = current_results]_vars

\* C13: when the document to save equals the one in the file and at HEAD, the save
\* leaves the stored content as it was, adds no commit, and logs no failure of
\* the commit.
C13_IdenticalSaveIsNoOp ==
    [][(/\ pc = "save" /\ pc' = "done"
        /\ state_file = WrittenFile(current_results)
        /\ repo.head = state_file) =>
          /\ state_file' = state_file
          /\ repo'.head = repo.head
          /\ repo'.commit # "done"
          /\ repo'.commit # "unchanged-logged-failed"]_vars

\* C14: when the file is absent, or holds no JSON, or holds JSON that is not a
\* park -> month -> list document, load_previous_state returns an empty value and
\* the run classifies every current record as new and nothing as removed or
\* updated.
C14_UnreadableIsFirstRun ==
    (pc = "notify" /\ ~HoldsSnapshot(state_file)) =>
        /\ previous_state = <<>>
        /\ changes.removed = <<>>
        /\ changes.updated = <<>>
        /\ \A r \in InputRecords(current_results) :
              \E x \in GroupEntries(changes.new) :
                  x.group = r.park /\ x.e.date = r.date

\* C15 as stated: run_single_check returns False only when an exception reached
\* its handler.
C15_FailedOnlyWhenUncaught ==
    success = "False" => pc = "failed"

\* C15 as amended: run_single_check returns False when an exception reached its
\* handler (which sends the error message) or when the change message was handed
\* to the channel and the channel answered False, and in no other case: a run that
\* hands the channel nothing returns True, whatever the load, the fetches and the
\* save did.
C15_FailedOnUncaughtOrDelivery ==
    /\ success = "False" => (pc = "failed" \/ ChangeMessages # {})
    /\ pc = "failed" => (success = "False" /\ sent = <<ErrorMessage>>)
    /\ (pc \in {"save", "done", "stopped"} /\ ChangeMessages = {}) =>
          (success = "True" /\ sent = <<>>)
    /\ pc \in {"load", "check", "compare", "notify"} => success = "none"

\* A second run that found the file unreadable, lost a park's fetch, failed to
\* write the file, and still returned True.
C15_Witness ==
    /\ pc = "done" /\ run = 2
    /\ success = "True"
    /\ previous_state = <<>>
    /\ Len(current_results) = 1 /\ CountRecords(current_results) = 0
    /\ repo.write = "failed"
    /\ state_file = CorruptFile
    /\ sent = <<>>

\* C16: a run that left check_all_parks, in whatever way, has attempted every
\* configured park.
C16_EveryParkAttempted ==
    pc \in {"compare", "notify", "save", "done", "stopped", "failed"} =>
        park_i = Len(parks) + 1

\* C17: a run that observes exactly what the file holds hands the channel no
\* message and returns True.
C17_SameObservationNoMessage ==
    (AfterCompare /\ pc # "notify" /\ previous_type = "dict"
       /\ previous_state = current_results) =>
        /\ changes = EmptyChanges
        /\ sent = <<>>
        /\ success = "True"

\* The second run observes the record the first run saved.
C17_Witness ==
    /\ pc = "done" /\ run = 2
    /\ previous_state = current_results
    /\ CountRecords(current_results) = 1
    /\ sent = <<>>

\* The parks whose check_park_availability returned an empty result in this run.
FetchFailed == {parks[i] : i \in 1..(park_i - 1)} \ Keys(current_results)

\* C18: a park whose check returned an empty result is not in current_results, and
\* every record the loaded snapshot holds for it is in removed[park] (as the
\* snapshot's record, when the snapshot has one record per date); if there is such
\* a record the run hands the channel a change message.
C18_FetchFailureReportsRemoved ==
    (AfterCompare /\ previous_type = "dict") =>
        /\ \A j \in 1..Len(current_results) : current_results[j].v # <<>>
        /\ \A r \in InputRecords(previous_state) :
              r.park \in FetchFailed =>
                  /\ \E x \in GroupEntries(changes.removed) :
                        /\ x.group = r.park /\ x.e.date = r.date
                        /\ UniqueKeys(previous_state) => x.e = r
                  /\ pc # "notify" => ChangeMessages # {}

\* The snapshot holds a record of Bukhansan; this run's check of Bukhansan returns
\* nothing and Jirisan shows no availability: the only change is the removed
\* record, and a message goes out.
C18_Witness ==
    /\ pc = "done"
    /\ "Bukhansan" \in FetchFailed
    /\ Keys(current_results) = {"Jirisan"}
    /\ \E r \in InputRecords(previous_state) : r.park = "Bukhansan"
    /\ changes.new = <<>> /\ changes.updated = <<>>
    /\ Len(changes.removed) = 1
    /\ ChangeMessages # {}

====
